---------------------------- MODULE Spec2Model ----------------------------
(***************************************************************************)
(* State-machine model of aurelius/modules/scheduler.py (TaskScheduler).   *)
(*                                                                         *)
(* The scheduler runs on one asyncio event loop: a coroutine runs          *)
(* atomically from one await that suspends to the next, so every action    *)
(* below is one such stretch of code.  Time is counted in minutes; the     *)
(* polling sleep of 60 seconds is one minute.                              *)
(***************************************************************************)
EXTENDS Integers, Sequences, FiniteSets, TLC

(***************************************************************************)
(* Bounds of the model.                                                    *)
(***************************************************************************)
MaxTicks == 2          \* steps of the clock
MaxInvocations == 2    \* invocations of job operations (automatic + manual)
MaxStarts == 2         \* effective start() calls
MaxManualCalls == 1    \* run_task_manually calls
MaxSequentialRuns == 150  \* run_task_manually calls made in sequence
MaxMixedRuns == 3      \* of which the first ones may fail
MaxDay == 1            \* calendar days 0..MaxDay of the schedule evaluator's inputs

(***************************************************************************)
(* Program constants.                                                      *)
(***************************************************************************)
PollMinutes == 1       \* asyncio.sleep(60)
HistoryCap == 100      \* history[:100]
SocialInterval == 30   \* "social_engagement" interval_minutes
SalesInterval == 60    \* "sales_tasks" interval_minutes
HealthInterval == 15   \* "system_health_check" interval_minutes
DailyInterval == 1440  \* "daily_analytics" interval_minutes
ReportHour == 9        \* settings.analytics_report_hour
WeeklyInterval == 10080  \* "weekly_analytics" interval_minutes
WeekDays == 7          \* days after which datetime.weekday() repeats
Monday == 0            \* datetime.weekday() of a Monday

NoRun == -1            \* config["last_run"] is None
NoHour == -1           \* config has no "run_at_hour"
BadRun == -2           \* a last_run that datetime.fromisoformat rejects

\* The part of the registry that is modelled, in registration order.
JobOrder == <<"social_engagement", "daily_analytics", "system_health_check">>
Jobs == {JobOrder[i] : i \in 1..Len(JobOrder)}
\* Names a caller may pass to run_task_manually.
Names == Jobs \cup {"nonexistent"}
\* The jobs whose runners are followed unless a specification says otherwise.
PollingJobs == {"social_engagement", "system_health_check"}

\* Minutes the clock may advance in one step.
TickSteps == {PollMinutes, HealthInterval}

interval_minutes(j) ==
    IF j = "social_engagement" THEN SocialInterval
    ELSE IF j = "daily_analytics" THEN DailyInterval ELSE HealthInterval

run_at_hour(j) == IF j = "daily_analytics" THEN ReportHour ELSE NoHour

\* _initialize_task_configs: a fresh config dict per job, last_run None.
InitialConfigs ==
    [j \in Jobs |-> [interval_minutes |-> interval_minutes(j),
                     enabled |-> TRUE,
                     last_run |-> NoRun,
                     run_at_hour |-> run_at_hour(j)]]

HourOf(t) == (t \div 60) % 24
DateOf(t) == t \div 1440

\* Evaluators that each leave out one rule of _should_run_task.
ShouldRunIntervalOnly(config, hour, t) ==
    IF config.last_run = NoRun THEN TRUE
    ELSE t - config.last_run >= config.interval_minutes

ShouldRunHourFirst(config, hour, t) ==
    IF config.last_run = NoRun
    THEN IF hour # NoHour THEN HourOf(t) = hour ELSE TRUE
    ELSE IF hour # NoHour
         THEN /\ HourOf(t) = hour
              /\ ~(DateOf(config.last_run) = DateOf(t)
                   /\ HourOf(config.last_run) = hour)
         ELSE t - config.last_run >= config.interval_minutes

ShouldRunNoSameDayGuard(config, hour, t) ==
    IF config.last_run = NoRun
    THEN IF hour # NoHour THEN HourOf(t) = hour ELSE TRUE
    ELSE /\ t - config.last_run >= config.interval_minutes
         /\ hour # NoHour => HourOf(t) = hour

\* An evaluator that compares the seconds since last_run with the minutes
\* of the interval.
ShouldRunMinutesAsSeconds(config, hour, t) ==
    IF config.last_run = NoRun
    THEN IF hour # NoHour THEN HourOf(t) = hour ELSE TRUE
    ELSE IF config.last_run = BadRun
    THEN FALSE
    ELSE IF (t - config.last_run) * 60 < config.interval_minutes
         THEN FALSE
         ELSE IF hour # NoHour
              THEN IF HourOf(t) # hour
                   THEN FALSE
                   ELSE ~(DateOf(config.last_run) = DateOf(t)
                          /\ HourOf(config.last_run) = hour)
              ELSE TRUE

\* An evaluator whose `except` answers True.
ShouldRunFailOpen(config, hour, t) ==
    IF config.last_run = NoRun
    THEN IF hour # NoHour THEN HourOf(t) = hour ELSE TRUE
    ELSE IF config.last_run = BadRun
    THEN TRUE
    ELSE /\ t - config.last_run >= config.interval_minutes
         /\ hour # NoHour
               => /\ HourOf(t) = hour
                  /\ ~(DateOf(config.last_run) = DateOf(t)
                       /\ HourOf(config.last_run) = hour)

(***************************************************************************)
(* _should_run_task.  last_run is stored as datetime.isoformat() and read  *)
(* back with datetime.fromisoformat(), which returns the same instant; a   *)
(* string it rejects raises ValueError into `except Exception`, which      *)
(* returns False.  The body has no await, so it is evaluated within the    *)
(* caller's step.                                                          *)
(***************************************************************************)
ShouldRunTask(config, hour, t) ==
    IF config.last_run = NoRun
    THEN IF hour # NoHour THEN HourOf(t) = hour ELSE TRUE
    ELSE IF config.last_run = BadRun
    THEN FALSE
    ELSE IF (t - config.last_run) * 60 < config.interval_minutes * 60
         THEN FALSE
         ELSE IF hour # NoHour
              THEN IF HourOf(t) # hour
                   THEN FALSE
                   ELSE ~(DateOf(config.last_run) = DateOf(t)
                          /\ HourOf(config.last_run) = hour)
              ELSE TRUE

(***************************************************************************)
(* Exception routing of _run_periodic_task.  `point` is the await at which *)
(* the exception surfaces, `exc` its class: "Exception" for an ordinary    *)
(* error, "CancelledError" for a cancellation (a BaseException since       *)
(* Python 3.8, which main.py requires, so `except Exception` lets it       *)
(* pass).  The result is the runner's next position.                       *)
(***************************************************************************)
RouteLikeException(point, exc) ==
    \* every handler treats CancelledError as it treats Exception
    CASE point = "created" -> "done"
      [] point = "op" -> "fail_get"
      [] point \in {"ok_get", "ok_set"} -> "sleep"
      [] point \in {"fail_get", "fail_set"} -> "alert"
      [] point = "alert" -> "sleep"
      [] OTHER -> "done"

RouteUncaught(point, exc) ==
    \* no handler around the operation: any exception ends the runner
    CASE point = "alert" -> "sleep"
      [] point \in {"ok_get", "ok_set"} /\ exc = "Exception" -> "sleep"
      [] point \in {"fail_get", "fail_set"} /\ exc = "Exception" -> "alert"
      [] OTHER -> "done"

RouteAlertFatal(point, exc) ==
    \* no handler around the alert: its failure ends the runner
    CASE point = "op" /\ exc = "Exception" -> "fail_get"
      [] point \in {"ok_get", "ok_set"} /\ exc = "Exception" -> "sleep"
      [] point \in {"fail_get", "fail_set"} /\ exc = "Exception" -> "alert"
      [] OTHER -> "done"

RouteLogUncaught(point, exc) ==
    \* no handler inside _log_task_execution: a store error while logging a
    \* success lands in the runner's `except Exception`, one while logging
    \* a failure leaves that handler for the outer one
    CASE point = "created" -> "done"
      [] point = "op" -> IF exc = "Exception" THEN "fail_get" ELSE "done"
      [] point \in {"ok_get", "ok_set"} ->
            IF exc = "Exception" THEN "fail_get" ELSE "done"
      [] point \in {"fail_get", "fail_set"} ->
            IF exc = "Exception" THEN "sleep" ELSE "done"
      [] point = "alert" -> "sleep"
      [] OTHER -> "done"

AfterRaise(point, exc) ==
    CASE point = "created" -> "done"
      [] point = "op" ->
            IF exc = "Exception" THEN "fail_get"     \* except Exception as e
            ELSE "done"                              \* except CancelledError: break
      [] point \in {"ok_get", "ok_set"} ->
            IF exc = "Exception" THEN "sleep"        \* swallowed by _log_task_execution
            ELSE "done"
      [] point \in {"fail_get", "fail_set"} ->
            IF exc = "Exception" THEN "alert"        \* swallowed by _log_task_execution
            ELSE "done"
      [] point = "alert" -> "sleep"                  \* bare except: pass
      [] point = "sleep" -> "done"                   \* except CancelledError: break
      [] OTHER -> "done"
\* (The outer `except Exception` of the loop is reached by no exception:
\* every await inside the loop body has a handler of its own before it.)

\* execution_log of _log_task_execution
ExecutionLog(name, t, success, error) ==
    [task_name |-> name, timestamp |-> t, success |-> success, error |-> error]

NoLog == ExecutionLog("", NoRun, FALSE, "")

Take(s, n) == IF Len(s) <= n THEN s ELSE SubSeq(s, 1, n)

InsertUncapped(history, log) == <<log>> \o history

AppendCapped(history, log) == Take(history \o <<log>>, HistoryCap)

\* history.insert(0, execution_log); history = history[:100]
InsertCapped(history, log) == Take(<<log>> \o history, HistoryCap)

VARIABLES
    now,            \* datetime.now(), in minutes
    is_running,     \* TaskScheduler.is_running
    task_configs,   \* TaskScheduler.task_configs: name -> config
    running_tasks,  \* keys of TaskScheduler.running_tasks
    pc,             \* position of each job's runner task
    cancel_req,     \* the task has a cancellation pending
    slept,          \* the runner's current sleep has lasted its 60 seconds
    op_inflight,    \* operation coroutines the runner started, not yet ended
    log_rec,        \* the runner's execution_log being persisted
    log_hist,       \* the runner's local `history` between get and set
    store,          \* data_store: task_execution_history:<name>
    alerts,         \* discord.send_system_alert calls made, per job
    stop_pc,        \* position of the stop() call
    stop_idx,       \* index in running_tasks of the task stop() awaits
    man,            \* the run_task_manually call and its caller's view
    cnt,            \* counters that bound the model
    registry,       \* the registered jobs whose runners are followed
    probe,          \* a call of _should_run_task on its own: inputs, result
    health,         \* the _system_health_check call in flight and its output
    reported,       \* what the last get_task_status call returned
    last_call,      \* the owner's last start() or stop() call and its outcome
    system,         \* AureliusSystem: where its stop() is, and the data store
    monitor         \* the health_check() call of main.py and what it returned

vars == <<now, is_running, task_configs, running_tasks, pc, cancel_req,
          slept, op_inflight, log_rec, log_hist, store, alerts, stop_pc, stop_idx,
          man, cnt, registry, probe, health, reported, last_call, system,
          monitor>>

\* The scheduler, its runners and its store.
sched == <<now, is_running, task_configs, running_tasks, pc, cancel_req,
           slept, op_inflight, log_rec, log_hist, store, alerts, stop_pc,
           stop_idx, man, cnt>>

\* What the scheduler's handlers leave alone: all of it, all but the
\* owner's view of the call, all but the body of the health check.
aux == <<registry, system, monitor, probe, health, reported, last_call>>
rest == <<registry, system, monitor, probe, health, reported>>
apart == <<registry, system, monitor, probe, reported, last_call>>

NoProbe == [last_run |-> NoRun, interval_minutes |-> 0, run_at_hour |-> NoHour,
            t |-> 0, asked |-> FALSE, due |-> FALSE]

IdleHealth == [pc |-> "idle", redis_ok |-> FALSE, tasks_ok |-> FALSE,
               status |-> "unknown", system_health |-> "none", alerts |-> 0]

NoCall == [op |-> "none", seq |-> 0, outcome |-> "none"]

NoStatus == [returned |-> FALSE, scheduler_running |-> FALSE,
             last_updated |-> NoRun, tasks |-> <<>>]

\* No health_check() call of main.py has been made yet.
NoReport == [pc |-> "idle", data_store_ok |-> FALSE, status |-> "none",
             data_store |-> "none", scheduler |-> "none"]

\* AureliusSystem after initialize_data_store(), before its stop().
Serving == [pc |-> "serving", store_open |-> TRUE]

IdleCall == [pc |-> "idle", job |-> "", ret |-> "none", stale |-> FALSE,
             rec |-> NoLog, hist |-> <<>>]

\* TaskScheduler.__init__ and an empty store.
Constructed ==
    /\ is_running = FALSE
    /\ task_configs = [j \in {} |-> NoRun]
    /\ running_tasks = {}
    /\ pc = [j \in Jobs |-> "none"]
    /\ cancel_req = [j \in Jobs |-> FALSE]
    /\ slept = [j \in Jobs |-> FALSE]
    /\ op_inflight = [j \in Jobs |-> 0]
    /\ log_rec = [j \in Jobs |-> NoLog]
    /\ log_hist = [j \in Jobs |-> <<>>]
    /\ store = [n \in Names |-> <<>>]
    /\ alerts = [n \in Names |-> 0]
    /\ stop_pc = "idle"
    /\ stop_idx = 0
    /\ man = IdleCall
    /\ cnt = [invocations |-> 0, starts |-> 0, calls |-> 0, ticks |-> 0]

\* The constructed scheduler, the clock at minute 0.
Init ==
    /\ now = 0
    /\ Constructed
    /\ registry = PollingJobs
    /\ probe = NoProbe
    /\ health = IdleHealth
    /\ last_call = NoCall
    /\ reported = NoStatus
    /\ system = Serving
    /\ monitor = NoReport

\* The clock advances; every sleep that was pending has now lasted 60 s.
Tick(d) ==
    /\ cnt.ticks < MaxTicks
    /\ now' = now + d
    /\ cnt' = [cnt EXCEPT !.ticks = @ + 1]
    /\ slept' = [j \in Jobs |-> slept[j] \/ pc[j] = "sleep"]
    /\ UNCHANGED <<aux, is_running, task_configs, running_tasks, pc, cancel_req,
                   op_inflight, log_rec, log_hist, store, alerts, stop_pc,
                   stop_idx, man>>

(***************************************************************************)
(* start(): no await suspends inside _initialize_task_configs and          *)
(* _start_scheduled_tasks, so the whole call is one step.  A run_task_     *)
(* manually call in flight keeps its reference to the replaced config.     *)
(***************************************************************************)
StartEntryRebuilds(running) == "start"

SpawnFirstOnly(configs) ==
    LET on == {k \in 1..Len(JobOrder) :
                  /\ JobOrder[k] \in DOMAIN configs
                  /\ configs[JobOrder[k]].enabled}
    IN  IF on = {} THEN {}
        ELSE {JobOrder[CHOOSE k \in on : \A m \in on : k <= m]}

\* for task_name, config in ...: if config.get("enabled", True): create_task
ToSpawn(configs) == {j \in DOMAIN configs : configs[j].enabled}

\* if self.is_running: logger.warning(...); return
StartEntry(running) == IF running THEN "return" ELSE "start"

\* A start() that keeps the last_run of the jobs it finds configured.
StartKeepsLastRun ==
    IF StartEntry(is_running) # "start"
    THEN UNCHANGED <<now, is_running, task_configs, running_tasks, pc,
                     cancel_req, slept, op_inflight, log_rec, log_hist, store,
                     alerts, stop_pc, stop_idx, man, cnt, rest>>
    ELSE LET enabled == ToSpawn([j \in registry |-> InitialConfigs[j]]) IN
         /\ cnt.starts < MaxStarts
         /\ is_running' = TRUE
         /\ task_configs' =
               [j \in registry |->
                  IF j \in DOMAIN task_configs
                  THEN [InitialConfigs[j] EXCEPT
                          !.last_run = task_configs[j].last_run]
                  ELSE InitialConfigs[j]]
         /\ running_tasks' = running_tasks \cup enabled
         /\ pc' = [j \in Jobs |-> IF j \in enabled THEN "created" ELSE pc[j]]
         /\ cancel_req' = [j \in Jobs |->
                             IF j \in enabled THEN FALSE ELSE cancel_req[j]]
         /\ man' = [man EXCEPT !.stale = (man.pc # "idle")]
         /\ cnt' = [cnt EXCEPT !.starts = @ + 1]
         /\ UNCHANGED <<now, slept, op_inflight, log_rec, log_hist, store,
                        alerts, stop_pc, stop_idx, rest>>

Start ==
    IF StartEntry(is_running) # "start"
    THEN UNCHANGED <<now, is_running, task_configs, running_tasks, pc,
                     cancel_req, slept, op_inflight, log_rec, log_hist, store,
                     alerts, stop_pc, stop_idx, man, cnt, rest>>
    ELSE LET enabled == ToSpawn([j \in registry |-> InitialConfigs[j]]) IN
         /\ cnt.starts < MaxStarts
         /\ is_running' = TRUE
         /\ task_configs' = [j \in registry |-> InitialConfigs[j]]
         /\ running_tasks' = running_tasks \cup enabled
         /\ pc' = [j \in Jobs |-> IF j \in enabled THEN "created" ELSE pc[j]]
         /\ cancel_req' = [j \in Jobs |->
                             IF j \in enabled THEN FALSE ELSE cancel_req[j]]
         /\ man' = [man EXCEPT !.stale = (man.pc # "idle")]
         /\ cnt' = [cnt EXCEPT !.starts = @ + 1]
         /\ UNCHANGED <<now, slept, op_inflight, log_rec, log_hist, store,
                        alerts, stop_pc, stop_idx, rest>>

\* Position of the runner while its invocation is in flight:
\* `await task_function()`.
FireAndForget == "sleep"

InvokePosition == "op"

(***************************************************************************)
(* One pass of `while self.is_running:` up to the first await that         *)
(* suspends: the schedule check, then either the invocation or the sleep.  *)
(***************************************************************************)
RunnerTick(j) ==
    /\ pc[j] = "created" \/ (pc[j] = "sleep" /\ slept[j])
    /\ ~cancel_req[j]
    /\ IF ~is_running
       THEN /\ pc' = [pc EXCEPT ![j] = "done"]
            /\ UNCHANGED <<op_inflight, cnt, slept>>
       ELSE IF ShouldRunTask(task_configs[j], run_at_hour(j), now)
            THEN /\ cnt.invocations < MaxInvocations
                 /\ pc' = [pc EXCEPT ![j] = InvokePosition]
                 /\ op_inflight' = [op_inflight EXCEPT ![j] = @ + 1]
                 /\ cnt' = [cnt EXCEPT !.invocations = @ + 1]
                 /\ slept' = [slept EXCEPT ![j] = FALSE]
            ELSE /\ pc' = [pc EXCEPT ![j] = "sleep"]
                 /\ slept' = [slept EXCEPT ![j] = FALSE]
                 /\ UNCHANGED <<op_inflight, cnt>>
    /\ UNCHANGED <<aux, now, is_running, task_configs, running_tasks, cancel_req,
                   log_rec, log_hist, store, alerts, stop_pc, stop_idx, man>>

(***************************************************************************)
(* An exception of class exc surfaces in runner j at its current await.    *)
(* Entering `except Exception as e` calls _log_task_execution(name, False, *)
(* str(e)), which builds execution_log before its first await.             *)
(***************************************************************************)
Surface(j, exc) ==
    LET to == AfterRaise(pc[j], exc) IN
    /\ pc' = [pc EXCEPT ![j] = to]
    /\ log_rec' = [log_rec EXCEPT ![j] =
                     IF to = "fail_get" THEN ExecutionLog(j, now, FALSE, exc)
                     ELSE IF to \in {"fail_set", "ok_set"} THEN @ ELSE NoLog]
    /\ log_hist' = [log_hist EXCEPT ![j] =
                     IF to \in {"fail_set", "ok_set"} THEN @ ELSE <<>>]
    /\ alerts' = IF to = "alert" THEN [alerts EXCEPT ![j] = @ + 1] ELSE alerts
    /\ slept' = [slept EXCEPT ![j] = FALSE]

OperationReturnsSharedClock(j) ==
    \* as if one last_run were shared by all the jobs
    /\ op_inflight[j] > 0
    /\ ~cancel_req[j]
    /\ op_inflight' = [op_inflight EXCEPT ![j] = @ - 1]
    /\ IF pc[j] = "op"
       THEN /\ task_configs' = [k \in DOMAIN task_configs |->
                                  [task_configs[k] EXCEPT !.last_run = now]]
            /\ pc' = [pc EXCEPT ![j] = "ok_get"]
            /\ log_rec' = [log_rec EXCEPT ![j] = ExecutionLog(j, now, TRUE, "")]
       ELSE UNCHANGED <<task_configs, pc, log_rec>>
    /\ UNCHANGED <<apart, now, is_running, running_tasks, cancel_req, slept,
                   log_hist, store, alerts, stop_pc, stop_idx, man, cnt>>

\* The operation returns: last_run is set, then the success is logged.
OperationReturns(j) ==
    /\ op_inflight[j] > 0
    /\ ~cancel_req[j]
    /\ op_inflight' = [op_inflight EXCEPT ![j] = @ - 1]
    /\ IF pc[j] = "op"
       THEN /\ task_configs' = [task_configs EXCEPT ![j].last_run = now]
            /\ pc' = [pc EXCEPT ![j] = "ok_get"]
            /\ log_rec' = [log_rec EXCEPT ![j] = ExecutionLog(j, now, TRUE, "")]
       ELSE UNCHANGED <<task_configs, pc, log_rec>>
    /\ UNCHANGED <<apart, now, is_running, running_tasks, cancel_req, slept,
                   log_hist, store, alerts, stop_pc, stop_idx, man, cnt>>

\* The operation raises an ordinary error.
OperationRaises(j) ==
    /\ op_inflight[j] > 0
    /\ ~cancel_req[j]
    /\ op_inflight' = [op_inflight EXCEPT ![j] = @ - 1]
    /\ IF pc[j] = "op"
       THEN Surface(j, "Exception")
       ELSE UNCHANGED <<pc, log_rec, log_hist, alerts, slept>>
    /\ UNCHANGED <<aux, now, is_running, task_configs, running_tasks, cancel_req,
                   store, stop_pc, stop_idx, man, cnt>>

\* data_store.get returns; the new entry is inserted and the list cut.
LogGet(j) ==
    /\ pc[j] \in {"ok_get", "fail_get"}
    /\ ~cancel_req[j]
    /\ log_hist' = [log_hist EXCEPT ![j] = InsertCapped(store[j], log_rec[j])]
    /\ pc' = [pc EXCEPT ![j] = IF pc[j] = "ok_get" THEN "ok_set" ELSE "fail_set"]
    /\ UNCHANGED <<aux, now, is_running, task_configs, running_tasks, cancel_req,
                   slept, op_inflight, log_rec, store, alerts, stop_pc,
                   stop_idx, man, cnt>>

\* data_store.set returns and _log_task_execution with it: after a success
\* the runner sleeps, after a failure it calls discord.send_system_alert.
LogSet(j) ==
    /\ pc[j] \in {"ok_set", "fail_set"}
    /\ ~cancel_req[j]
    /\ store' = [store EXCEPT ![j] = log_hist[j]]
    /\ log_rec' = [log_rec EXCEPT ![j] = NoLog]
    /\ log_hist' = [log_hist EXCEPT ![j] = <<>>]
    /\ IF pc[j] = "ok_set"
       THEN /\ pc' = [pc EXCEPT ![j] = "sleep"]
            /\ slept' = [slept EXCEPT ![j] = FALSE]
            /\ UNCHANGED alerts
       ELSE /\ pc' = [pc EXCEPT ![j] = "alert"]
            /\ alerts' = [alerts EXCEPT ![j] = @ + 1]
            /\ UNCHANGED slept
    /\ UNCHANGED <<aux, now, is_running, task_configs, running_tasks, cancel_req,
                   op_inflight, stop_pc, stop_idx, man, cnt>>

\* discord.send_system_alert returns or raises; either way the runner sleeps.
AlertEnds(j) ==
    /\ pc[j] = "alert"
    /\ ~cancel_req[j]
    /\ \E outcome \in {"ok", "Exception"} :
          pc' = [pc EXCEPT ![j] =
                   IF outcome = "ok" THEN "sleep" ELSE AfterRaise("alert", outcome)]
    /\ slept' = [slept EXCEPT ![j] = FALSE]
    /\ UNCHANGED <<aux, now, is_running, task_configs, running_tasks, cancel_req,
                   op_inflight, log_rec, log_hist, store, alerts, stop_pc,
                   stop_idx, man, cnt>>

(***************************************************************************)
(* The event loop delivers a pending cancellation: CancelledError is       *)
(* thrown into the runner at the await where it is suspended (a task that  *)
(* never ran is cancelled outright).  An operation in flight is unwound    *)
(* by the exception.                                                       *)
(***************************************************************************)
DeliverCancel(j) ==
    /\ cancel_req[j]
    /\ pc[j] \notin {"none", "done"}
    /\ cancel_req' = [cancel_req EXCEPT ![j] = FALSE]
    /\ op_inflight' = [op_inflight EXCEPT ![j] = IF pc[j] = "op" THEN @ - 1 ELSE @]
    /\ Surface(j, "CancelledError")
    /\ UNCHANGED <<apart, now, is_running, task_configs, running_tasks, store,
                   stop_pc, stop_idx, man, cnt>>

(***************************************************************************)
(* stop().  The loop over running_tasks runs until it awaits a task that   *)
(* is not done, having requested its cancellation; when that task is done  *)
(* the loop goes on.  After the loop the task set is cleared and the flag  *)
(* reset.                                                                  *)
(***************************************************************************)
StopFrom(first) ==
    LET live == {k \in first..Len(JobOrder) :
                    JobOrder[k] \in running_tasks /\ pc[JobOrder[k]] # "done"}
    IN  IF live = {}
        THEN /\ running_tasks' = {}
             /\ is_running' = FALSE
             /\ stop_pc' = "idle"
             /\ stop_idx' = 0
             /\ UNCHANGED cancel_req
        ELSE LET k == CHOOSE x \in live : \A y \in live : x <= y IN
             /\ cancel_req' = [cancel_req EXCEPT ![JobOrder[k]] = TRUE]
             /\ stop_pc' = "await"
             /\ stop_idx' = k
             /\ UNCHANGED <<running_tasks, is_running>>

StopEntryRaises(running) == IF ~running THEN "raise" ELSE "stop"

\* if not self.is_running: return
StopEntry(running) == IF ~running THEN "return" ELSE "stop"

Stop ==
    /\ stop_pc = "idle"
    /\ IF StopEntry(is_running) # "stop"
       THEN UNCHANGED <<cancel_req, stop_pc, stop_idx, running_tasks, is_running>>
       ELSE StopFrom(1)
    /\ UNCHANGED <<rest, now, task_configs, pc, slept, op_inflight, log_rec, log_hist,
                   store, alerts, man, cnt>>

\* `await task` returns, or raises CancelledError, which stop() passes over.
StopResumes ==
    /\ stop_pc = "await"
    /\ pc[JobOrder[stop_idx]] = "done"
    /\ StopFrom(stop_idx + 1)
    /\ UNCHANGED <<aux, now, task_configs, pc, slept, op_inflight, log_rec, log_hist,
                   store, alerts, man, cnt>>

(***************************************************************************)
(* run_task_manually.  Where the call goes first: an unknown name returns  *)
(* False at once, a known one awaits the job's operation.                  *)
(***************************************************************************)
ManualEntryKeyError(name, configs) ==
    \* no membership test: the lookup raises and `except` logs a failure
    IF name \notin DOMAIN configs THEN "fail_get" ELSE "op"

ManualEntryExclusive(name, configs) ==
    \* as if the call gave way to an automatic invocation in flight
    IF name \notin DOMAIN configs THEN "return_false"
    ELSE IF pc[name] = "op" THEN "return_false" ELSE "op"

ManualEntry(name, configs) ==
    IF name \notin DOMAIN configs THEN "return_false" ELSE "op"

RunTaskManually(n) ==
    /\ man.pc = "idle"
    /\ cnt.calls < MaxManualCalls
    /\ LET to == ManualEntry(n, task_configs)
           call == [IdleCall EXCEPT !.job = n]
       IN  IF to = "return_false"
           THEN /\ man' = [call EXCEPT !.ret = "False"]
                /\ cnt' = [cnt EXCEPT !.calls = @ + 1]
           ELSE IF to = "op"
           THEN /\ cnt.invocations < MaxInvocations
                /\ man' = [call EXCEPT !.pc = "op"]
                /\ cnt' = [cnt EXCEPT !.calls = @ + 1, !.invocations = @ + 1]
           ELSE /\ man' = [call EXCEPT !.pc = to,
                              !.rec = ExecutionLog(n, now, FALSE, "Exception")]
                /\ cnt' = [cnt EXCEPT !.calls = @ + 1]
    /\ UNCHANGED <<aux, now, is_running, task_configs, running_tasks, pc, cancel_req,
                   slept, op_inflight, log_rec, log_hist, store, alerts,
                   stop_pc, stop_idx>>

\* The operation returns: last_run is written to the config the call holds.
ManualOperationReturns ==
    /\ man.pc = "op"
    /\ task_configs' = IF man.stale THEN task_configs
                       ELSE [task_configs EXCEPT ![man.job].last_run = now]
    /\ man' = [man EXCEPT !.pc = "ok_get",
                          !.rec = ExecutionLog(man.job, now, TRUE, "")]
    /\ UNCHANGED <<aux, now, is_running, running_tasks, pc, cancel_req, slept,
                   op_inflight, log_rec, log_hist, store, alerts, stop_pc,
                   stop_idx, cnt>>

ManualOperationEscapes ==
    \* no `except`: the error of the operation leaves run_task_manually
    /\ man.pc = "op"
    /\ man' = [man EXCEPT !.pc = "idle", !.ret = "raised"]
    /\ UNCHANGED <<aux, now, is_running, task_configs, running_tasks, pc, cancel_req,
                   slept, op_inflight, log_rec, log_hist, store, alerts,
                   stop_pc, stop_idx, cnt>>

\* The operation raises: `except Exception` logs the failure.
ManualOperationRaises ==
    /\ man.pc = "op"
    /\ man' = [man EXCEPT !.pc = "fail_get",
                          !.rec = ExecutionLog(man.job, now, FALSE, "Exception")]
    /\ UNCHANGED <<aux, now, is_running, task_configs, running_tasks, pc, cancel_req,
                   slept, op_inflight, log_rec, log_hist, store, alerts,
                   stop_pc, stop_idx, cnt>>

ManualLogGet ==
    /\ man.pc \in {"ok_get", "fail_get"}
    /\ man' = [man EXCEPT !.pc = IF man.pc = "ok_get" THEN "ok_set" ELSE "fail_set",
                          !.hist = InsertCapped(store[man.job], man.rec)]
    /\ UNCHANGED <<aux, now, is_running, task_configs, running_tasks, pc, cancel_req,
                   slept, op_inflight, log_rec, log_hist, store, alerts,
                   stop_pc, stop_idx, cnt>>

\* data_store.set returns, then run_task_manually returns True or False.
ManualLogSet ==
    /\ man.pc \in {"ok_set", "fail_set"}
    /\ store' = [store EXCEPT ![man.job] = man.hist]
    /\ man' = [man EXCEPT !.pc = "idle",
                          !.ret = IF man.pc = "ok_set" THEN "True" ELSE "False",
                          !.rec = NoLog, !.hist = <<>>]
    /\ UNCHANGED <<aux, now, is_running, task_configs, running_tasks, pc, cancel_req,
                   slept, op_inflight, log_rec, log_hist, alerts, stop_pc,
                   stop_idx, cnt>>

\* Steps of the clock and of the runner tasks, once started.
RunnerNext ==
    \/ \E d \in TickSteps : Tick(d)
    \/ Start /\ UNCHANGED last_call
    \/ \E j \in Jobs : RunnerTick(j)
    \/ \E j \in Jobs : OperationReturns(j) /\ UNCHANGED health
    \/ \E j \in Jobs : OperationRaises(j)
    \/ \E j \in Jobs : LogGet(j)
    \/ \E j \in Jobs : LogSet(j)
    \/ \E j \in Jobs : AlertEnds(j)

\* Steps of a stop() call and of the cancellations it requests.
StopNext ==
    \/ Stop /\ UNCHANGED last_call
    \/ StopResumes
    \/ \E j \in Jobs : DeliverCancel(j) /\ UNCHANGED health

\* Steps of a run_task_manually call.
ManualNext ==
    \/ \E n \in registry \cup {"nonexistent"} : RunTaskManually(n)
    \/ ManualOperationReturns
    \/ ManualOperationRaises
    \/ ManualLogGet
    \/ ManualLogSet

AutoNext == RunnerNext \/ StopNext

ManualRunNext == RunnerNext \/ ManualNext

\* The scheduler with its runners, started and stopped by its owner.
Spec == Init /\ [][AutoNext]_vars

\* The started scheduler with run_task_manually calls arriving at any time.
ManualSpec == Init /\ [][ManualRunNext]_vars

(***************************************************************************)
(* Invocations of one job in sequence.  The scheduler has been started and *)
(* stopped, so the registry is filled and no runner is alive; each         *)
(* run_task_manually call runs to its return before the clock moves, and   *)
(* the calls are one poll period apart.  The first MaxMixedRuns calls end  *)
(* either way, the later ones return normally.                             *)
(***************************************************************************)
SequentialJob == "social_engagement"

StoppedAfterStart ==
    /\ now = 0
    /\ is_running = FALSE
    /\ registry = {SequentialJob}
    /\ task_configs = [j \in registry |-> InitialConfigs[j]]
    /\ running_tasks = {}
    /\ pc = [j \in Jobs |-> IF j \in registry THEN "done" ELSE "none"]
    /\ cancel_req = [j \in Jobs |-> FALSE]
    /\ slept = [j \in Jobs |-> FALSE]
    /\ op_inflight = [j \in Jobs |-> 0]
    /\ log_rec = [j \in Jobs |-> NoLog]
    /\ log_hist = [j \in Jobs |-> <<>>]
    /\ store = [n \in Names |-> <<>>]
    /\ alerts = [n \in Names |-> 0]
    /\ stop_pc = "idle"
    /\ stop_idx = 0
    /\ man = IdleCall
    /\ cnt = [invocations |-> 0, starts |-> 1, calls |-> 0, ticks |-> 0]
    /\ probe = NoProbe
    /\ health = IdleHealth
    /\ last_call = NoCall
    /\ reported = NoStatus
    /\ system = Serving
    /\ monitor = NoReport

\* run_task_manually(n) for a registered job, from entry to return.
RunToReturn(n, ok) ==
    LET log == ExecutionLog(n, now, ok, IF ok THEN "" ELSE "Exception") IN
    /\ man.pc = "idle"
    /\ ManualEntry(n, task_configs) = "op"
    /\ cnt.calls < MaxSequentialRuns
    /\ now = cnt.calls * PollMinutes
    /\ ~ok => cnt.calls < MaxMixedRuns
    /\ task_configs' = IF ok THEN [task_configs EXCEPT ![n].last_run = now]
                       ELSE task_configs
    /\ store' = [store EXCEPT ![n] = InsertCapped(store[n], log)]
    /\ man' = [IdleCall EXCEPT !.job = n,
                               !.ret = IF ok THEN "True" ELSE "False"]
    /\ cnt' = [cnt EXCEPT !.calls = @ + 1, !.invocations = @ + 1]
    /\ UNCHANGED <<aux, now, is_running, running_tasks, pc, cancel_req, slept,
                   op_inflight, log_rec, log_hist, alerts, stop_pc, stop_idx>>

\* The poll period between two calls passes.
PeriodPasses ==
    /\ now < cnt.calls * PollMinutes
    /\ now' = now + PollMinutes
    /\ UNCHANGED <<aux, is_running, task_configs, running_tasks, pc,
                   cancel_req, slept, op_inflight, log_rec, log_hist, store,
                   alerts, stop_pc, stop_idx, man, cnt>>

RetentionNext ==
    \/ \E ok \in BOOLEAN : RunToReturn(SequentialJob, ok)
    \/ PeriodPasses

RetentionSpec == StoppedAfterStart /\ [][RetentionNext]_vars

(***************************************************************************)
(* _system_health_check, the operation of the job "system_health_check",   *)
(* followed await by await while its runner is at `await task_function()`. *)
(* Every call on the store or the alert sink returns or raises.            *)
(***************************************************************************)
HealthJob == "system_health_check"

OverallStatusStrict(redis_ok, tasks_ok) ==
    IF redis_ok /\ tasks_ok THEN "healthy" ELSE "unhealthy"

\* if redis_ok and tasks_ok: ... elif redis_ok or tasks_ok: ... else: ...
OverallStatus(redis_ok, tasks_ok) ==
    IF redis_ok /\ tasks_ok THEN "healthy"
    ELSE IF redis_ok \/ tasks_ok THEN "degraded"
    ELSE "unhealthy"

\* all(status["running"] ...) over the tasks in running_tasks.
TasksOk == \A t \in running_tasks : pc[t] # "done"

\* The probe is over: task_status is filled and overall_status derived,
\* and the body awaits data_store.set("system_health", ...).
Derive(redis_connection) ==
    /\ health' = [health EXCEPT !.pc = "snapshot_set",
                                !.redis_ok = redis_connection,
                                !.tasks_ok = TasksOk,
                                !.status = OverallStatus(redis_connection, TasksOk)]
    /\ UNCHANGED <<sched, apart>>

\* The body ends, by its last statement or through `except Exception`, and
\* the coroutine returns to its runner.
BodyReturns ==
    /\ OperationReturns(HealthJob)
    /\ pc[HealthJob] = "op"

\* data_store.set("health_check", ...) returns or raises.
ProbeSetEnds(outcome) ==
    /\ pc[HealthJob] = "op" /\ ~cancel_req[HealthJob]
    /\ health.pc = "idle"
    /\ IF outcome = "ok"
       THEN /\ health' = [health EXCEPT !.pc = "probe_get"]
            /\ UNCHANGED <<sched, apart>>
       ELSE Derive(FALSE)

\* data_store.get("health_check") returns a value or None, or raises.
ProbeGetEnds(outcome) ==
    /\ pc[HealthJob] = "op" /\ ~cancel_req[HealthJob]
    /\ health.pc = "probe_get"
    /\ Derive(outcome = "value")

\* data_store.set("system_health", ...) returns, and the alert is sent if
\* the status is unhealthy; or it raises, into the outer `except Exception`.
SnapshotSetEnds(outcome) ==
    /\ pc[HealthJob] = "op" /\ ~cancel_req[HealthJob]
    /\ health.pc = "snapshot_set"
    /\ IF outcome = "ok" /\ health.status = "unhealthy"
       THEN /\ health' = [health EXCEPT !.pc = "alert",
                                        !.system_health = health.status,
                                        !.alerts = @ + 1]
            /\ UNCHANGED <<sched, apart>>
       ELSE /\ health' = [health EXCEPT !.pc = "idle",
                                        !.system_health =
                                            IF outcome = "ok" THEN health.status
                                            ELSE @]
            /\ BodyReturns

\* discord.send_system_alert(..., "health_monitor") returns or raises.
HealthAlertEnds ==
    /\ pc[HealthJob] = "op" /\ ~cancel_req[HealthJob]
    /\ health.pc = "alert"
    /\ health' = [health EXCEPT !.pc = "idle"]
    /\ BodyReturns

\* A cancellation delivered inside the body unwinds it: CancelledError
\* passes every `except Exception` of the body.
CancelDelivered(j) ==
    /\ DeliverCancel(j)
    /\ health' = IF j = HealthJob /\ pc[j] = "op"
                 THEN [health EXCEPT !.pc = "idle"] ELSE health

\* The scheduler with the health check followed inside its operation.
HealthNext ==
    \/ Start /\ UNCHANGED last_call
    \/ \E j \in Jobs : RunnerTick(j)
    \/ \E j \in Jobs \ {HealthJob} : OperationReturns(j) /\ UNCHANGED health
    \/ \E outcome \in {"ok", "Exception"} : ProbeSetEnds(outcome)
    \/ \E outcome \in {"value", "None", "Exception"} : ProbeGetEnds(outcome)
    \/ \E outcome \in {"ok", "Exception"} : SnapshotSetEnds(outcome)
    \/ HealthAlertEnds
    \/ \E j \in Jobs : LogGet(j)
    \/ \E j \in Jobs : LogSet(j)
    \/ Stop /\ UNCHANGED last_call
    \/ StopResumes
    \/ \E j \in Jobs : CancelDelivered(j)

HealthSpec == Init /\ [][HealthNext]_vars

(***************************************************************************)
(* _should_run_task on its own: one call on a config and a clock reading   *)
(* drawn from the instants below, the result kept for inspection.          *)
(***************************************************************************)
ClockHours == {0, ReportHour - 1, ReportHour, ReportHour + 1, 23}
ClockMinutes == {0, 5, 30, 59}
Instants == {d * 1440 + h * 60 + m :
                d \in 0..MaxDay, h \in ClockHours, m \in ClockMinutes}
ProbeIntervals == {SocialInterval, SalesInterval, DailyInterval}
ProbeHours == {NoHour, ReportHour, 23}

EvalInit ==
    /\ now = 0
    /\ Constructed
    /\ registry = PollingJobs
    /\ health = IdleHealth
    /\ last_call = NoCall
    /\ reported = NoStatus
    /\ system = Serving
    /\ monitor = NoReport
    /\ \E last \in {NoRun} \cup Instants, i \in ProbeIntervals,
          h \in ProbeHours, t \in Instants :
          probe = [last_run |-> last, interval_minutes |-> i,
                   run_at_hour |-> h, t |-> t, asked |-> FALSE, due |-> FALSE]

\* should_run = await self._should_run_task(task_name, config, run_at_hour)
Evaluate ==
    /\ ~probe.asked
    /\ probe' = [probe EXCEPT
                   !.asked = TRUE,
                   !.due = ShouldRunTask([last_run |-> probe.last_run,
                                          interval_minutes |-> probe.interval_minutes],
                                         probe.run_at_hour, probe.t)]
    /\ UNCHANGED <<sched, registry, system, monitor, health, reported,
                   last_call>>

EvalNext == Evaluate

EvalSpec == EvalInit /\ [][EvalNext]_vars

(***************************************************************************)
(* The runner of a job with a target hour: "daily_analytics" alone is      *)
(* followed, from a start() at any of the instants of the clock.           *)
(***************************************************************************)
CadenceInit ==
    /\ now \in Instants
    /\ Constructed
    /\ registry = {"daily_analytics"}
    /\ probe = NoProbe
    /\ health = IdleHealth
    /\ last_call = NoCall
    /\ reported = NoStatus
    /\ system = Serving
    /\ monitor = NoReport

CadenceNext == RunnerNext

CadenceSpec == CadenceInit /\ [][CadenceNext]_vars

(***************************************************************************)
(* The owner's view of its start() and stop() calls: which call it made    *)
(* last, and whether that call did its work ("done"), returned at its      *)
(* entry test ("noop") or raised out of it ("raised").  seq flips with     *)
(* every call.                                                             *)
(***************************************************************************)
Outcome(entry) ==
    IF entry = "return" THEN "noop"
    ELSE IF entry = "raise" THEN "raised" ELSE "done"

StartCall ==
    /\ Start
    /\ last_call' = [op |-> "start", seq |-> 1 - last_call.seq,
                     outcome |-> Outcome(StartEntry(is_running))]

StopCall ==
    /\ Stop
    /\ last_call' = [op |-> "stop", seq |-> 1 - last_call.seq,
                     outcome |-> Outcome(StopEntry(is_running))]

\* The scheduler and its runners at one reading of the clock, with the
\* owner's calls observed.
LifecycleNext ==
    \/ StartCall
    \/ StopCall
    \/ StopResumes
    \/ \E j \in Jobs : DeliverCancel(j) /\ UNCHANGED health
    \/ \E j \in Jobs : RunnerTick(j)
    \/ \E j \in Jobs : OperationReturns(j) /\ UNCHANGED health
    \/ \E j \in Jobs : OperationRaises(j)
    \/ \E j \in Jobs : LogGet(j)
    \/ \E j \in Jobs : LogSet(j)
    \/ \E j \in Jobs : AlertEnds(j)

LifecycleSpec == Init /\ [][LifecycleNext]_vars

\* The owner's start() and stop() calls together with run_task_manually
\* calls, at one reading of the clock.
ApiNext == LifecycleNext \/ ManualNext

ApiSpec == Init /\ [][ApiNext]_vars

(***************************************************************************)
(* The read-only queries: get_task_status, and a call of _should_run_task  *)
(* on a job's config at the current time.  Neither has an await, so each   *)
(* is one step.                                                            *)
(***************************************************************************)
NextRunWithoutInterval(config) ==
    IF config.last_run = NoRun THEN "immediately" ELSE config.last_run

\* _calculate_next_run: last_run + timedelta(minutes=interval_minutes).
CalculateNextRun(config) ==
    IF config.last_run = NoRun THEN "immediately"
    ELSE config.last_run + config.interval_minutes

\* The dict built by get_task_status.
TaskStatus ==
    [returned |-> TRUE,
     scheduler_running |-> is_running,
     last_updated |-> now,
     tasks |-> [j \in DOMAIN task_configs |->
                  [enabled |-> task_configs[j].enabled,
                   interval_minutes |-> task_configs[j].interval_minutes,
                   last_run |-> task_configs[j].last_run,
                   running |-> j \in running_tasks /\ pc[j] # "done",
                   next_run |-> CalculateNextRun(task_configs[j])]]]

\* A status query that also drops the finished tasks it meets.
GetTaskStatusPruning ==
    /\ reported' = TaskStatus
    /\ running_tasks' = {j \in running_tasks : pc[j] # "done"}
    /\ UNCHANGED <<now, is_running, task_configs, pc, cancel_req, slept,
                   op_inflight, log_rec, log_hist, store, alerts, stop_pc,
                   stop_idx, man, cnt, registry, system, monitor, probe,
                   health, last_call>>

GetTaskStatus ==
    /\ reported' = TaskStatus
    /\ UNCHANGED <<sched, registry, system, monitor, probe, health,
                   last_call>>

\* _should_run_task(task_name, config, config.get("run_at_hour")).
CheckSchedule(j) ==
    /\ j \in DOMAIN task_configs
    /\ probe' = [last_run |-> task_configs[j].last_run,
                 interval_minutes |-> task_configs[j].interval_minutes,
                 run_at_hour |-> run_at_hour(j),
                 t |-> now,
                 asked |-> TRUE,
                 due |-> ShouldRunTask(task_configs[j], run_at_hour(j), now)]
    /\ UNCHANGED <<sched, registry, system, monitor, health, reported,
                   last_call>>

\* The scheduler as its owner starts and stops it, queried at any time.
QueryNext ==
    \/ LifecycleNext
    \/ GetTaskStatus
    \/ \E j \in Jobs : CheckSchedule(j)

QuerySpec == Init /\ [][QueryNext]_vars

(***************************************************************************)
(* A schedule evaluation that fails.  The config dicts are plain shared    *)
(* objects: here some other holder of a job's config leaves in it a        *)
(* last_run that cannot be parsed, and the job's runner goes on ticking.   *)
(***************************************************************************)
CorruptInit ==
    /\ now = 0
    /\ Constructed
    /\ registry = {"social_engagement"}
    /\ probe = NoProbe
    /\ health = IdleHealth
    /\ last_call = NoCall
    /\ reported = NoStatus
    /\ system = Serving
    /\ monitor = NoReport

CorruptLastRun(j) ==
    /\ j \in DOMAIN task_configs
    /\ task_configs[j].last_run # BadRun
    /\ task_configs' = [task_configs EXCEPT ![j].last_run = BadRun]
    /\ UNCHANGED <<aux, now, is_running, running_tasks, pc, cancel_req, slept,
                   op_inflight, log_rec, log_hist, store, alerts, stop_pc,
                   stop_idx, man, cnt>>

CorruptNext ==
    \/ RunnerNext
    \/ \E j \in Jobs : CorruptLastRun(j)

CorruptSpec == CorruptInit /\ [][CorruptNext]_vars

(***************************************************************************)
(* Two runners side by side: the operation of FailingJob raises on every   *)
(* invocation, that of SteadyJob returns normally on every invocation.     *)
(***************************************************************************)
FailingJob == "social_engagement"
SteadyJob == "system_health_check"

IsolationNext ==
    \/ \E d \in TickSteps : Tick(d)
    \/ Start /\ UNCHANGED last_call
    \/ \E j \in Jobs : RunnerTick(j)
    \/ OperationRaises(FailingJob)
    \/ OperationReturns(SteadyJob) /\ UNCHANGED health
    \/ \E j \in Jobs : LogGet(j)
    \/ \E j \in Jobs : LogSet(j)
    \/ \E j \in Jobs : AlertEnds(j)

IsolationSpec == Init /\ [][IsolationNext]_vars

(***************************************************************************)
(* AureliusSystem.stop(), the shutdown of the whole system.  It returns at *)
(* once when the system is not running; otherwise it awaits the shutdown   *)
(* announcement, then stop_scheduler(), then close_data_store().  The      *)
(* system is running once start_scheduler() has returned, and              *)
(* AureliusSystem.start() is the only caller of start_scheduler().         *)
(***************************************************************************)
CloseWithoutAwaiting(returned) ==
    \* as if close_data_store() did not wait for stop_scheduler()
    [pc |-> "closing", store_open |-> FALSE]

\* Where AureliusSystem.stop() is once the scheduler's stop() has run up to
\* its return or its next await: close_data_store() is called only when
\* `await stop_scheduler()` has returned.
AfterStopScheduler(returned) ==
    IF returned THEN [pc |-> "closing", store_open |-> FALSE]
    ELSE [pc |-> "stopping", store_open |-> TRUE]

SystemStart ==
    /\ system.pc = "serving"
    /\ Start
    /\ UNCHANGED last_call

\* if not self.running: return; else await discord.post_announcement(...)
SystemStop ==
    /\ system.pc = "serving"
    /\ system' = [system EXCEPT !.pc = IF is_running THEN "announce"
                                       ELSE "returned"]
    /\ UNCHANGED <<sched, registry, monitor, probe, health, reported,
                   last_call>>

\* The announcement returns or raises (its error is logged and passed
\* over); stop_scheduler() is called and runs to its first await.
AnnouncementEnds ==
    /\ system.pc = "announce"
    /\ stop_pc = "idle"
    /\ IF StopEntry(is_running) # "stop"
       THEN UNCHANGED <<cancel_req, stop_pc, stop_idx, running_tasks, is_running>>
       ELSE StopFrom(1)
    /\ system' = AfterStopScheduler(stop_pc' = "idle")
    /\ UNCHANGED <<now, task_configs, pc, slept, op_inflight, log_rec, log_hist,
                   store, alerts, man, cnt, registry, monitor, probe, health,
                   reported, last_call>>

\* The runner that the scheduler's stop() awaits has ended: stop() goes on
\* to the next runner or returns to AureliusSystem.stop().
SchedulerStopResumes ==
    /\ system.pc = "stopping"
    /\ stop_pc = "await"
    /\ pc[JobOrder[stop_idx]] = "done"
    /\ StopFrom(stop_idx + 1)
    /\ system' = AfterStopScheduler(stop_pc' = "idle")
    /\ UNCHANGED <<now, task_configs, pc, slept, op_inflight, log_rec, log_hist,
                   store, alerts, man, cnt, registry, monitor, probe, health,
                   reported, last_call>>

\* close_data_store() returns, or raises into `except Exception`.
CloseEnds ==
    /\ system.pc = "closing"
    /\ system' = [system EXCEPT !.pc = "stopped"]
    /\ UNCHANGED <<sched, registry, monitor, probe, health, reported,
                   last_call>>

ShutdownNext ==
    \/ \E d \in TickSteps : Tick(d)
    \/ SystemStart
    \/ SystemStop
    \/ AnnouncementEnds
    \/ SchedulerStopResumes
    \/ CloseEnds
    \/ \E j \in Jobs : DeliverCancel(j) /\ UNCHANGED health
    \/ \E j \in Jobs : RunnerTick(j)
    \/ \E j \in Jobs : OperationReturns(j) /\ UNCHANGED health
    \/ \E j \in Jobs : OperationRaises(j)
    \/ \E j \in Jobs : LogGet(j)
    \/ \E j \in Jobs : LogSet(j)
    \/ \E j \in Jobs : AlertEnds(j)

\* The system from its start to its shutdown.
ShutdownSpec == Init /\ [][ShutdownNext]_vars

(***************************************************************************)
(* health_check() of main.py, the entry point for monitoring.  It answers  *)
(* "down" when the system is not running; otherwise it pings the store,    *)
(* reads the snapshot kept under "system_health" and derives the status it *)
(* returns.  The system is running from the return of start_scheduler()    *)
(* to the end of AureliusSystem.stop().                                    *)
(***************************************************************************)
SystemRunning == cnt.starts > 0 /\ system.pc # "stopped"

\* overall_status = "healthy"; if not data_store_ok: "degraded"
\* elif system_health.get("overall_status") == "unhealthy": "unhealthy"
MonitorStatus(data_store_ok, snapshot) ==
    IF ~data_store_ok THEN "degraded"
    ELSE IF snapshot = "unhealthy" THEN "unhealthy"
    ELSE "healthy"

\* if not aurelius_system.running: return {"status": "down", ...}
\* else: await data_store.set("health_ping", "ok", expire=60)
HealthCheckCall ==
    /\ monitor.pc = "idle"
    /\ monitor' = IF SystemRunning
                  THEN [NoReport EXCEPT !.pc = "ping"]
                  ELSE [NoReport EXCEPT !.status = "down"]
    /\ UNCHANGED <<sched, registry, system, probe, health, reported, last_call>>

\* The ping returns or raises (bare `except`), then the call awaits
\* data_store.get("system_health").
PingEnds(outcome) ==
    /\ monitor.pc = "ping"
    /\ monitor' = [monitor EXCEPT !.pc = "get", !.data_store_ok = (outcome = "ok")]
    /\ UNCHANGED <<sched, registry, system, probe, health, reported, last_call>>

\* The read returns the persisted snapshot, or {} when there is none, and
\* the call returns its report; or the read raises and the call returns
\* {"status": "error", ...} from its outer `except Exception`.
SnapshotGetEnds(outcome) ==
    /\ monitor.pc = "get"
    /\ monitor' =
         IF outcome = "value"
         THEN [monitor EXCEPT
                 !.pc = "idle",
                 !.status = MonitorStatus(monitor.data_store_ok,
                                          health.system_health),
                 !.data_store = IF monitor.data_store_ok THEN "ok" ELSE "error",
                 !.scheduler = IF SystemRunning THEN "ok" ELSE "error"]
         ELSE [monitor EXCEPT !.pc = "idle", !.status = "error"]
    /\ UNCHANGED <<sched, registry, system, probe, health, reported, last_call>>

MonitorNext ==
    \/ HealthNext
    \/ HealthCheckCall
    \/ \E outcome \in {"ok", "Exception"} : PingEnds(outcome)
    \/ \E outcome \in {"value", "Exception"} : SnapshotGetEnds(outcome)

\* The scheduler, its health check job and the monitoring entry point.
MonitorSpec == Init /\ [][MonitorNext]_vars

(***************************************************************************)
(* start() that fails.  _initialize_task_configs() raises before the new   *)
(* configs are assigned, or _start_scheduled_tasks() raises after it has   *)
(* created the tasks of the first `created` enabled jobs.  `except         *)
(* Exception` resets is_running and re-raises.  The tasks created so far   *)
(* stay in running_tasks and are not cancelled.  AureliusSystem.start(),   *)
(* the only caller, answers the error with its own stop(), which returns   *)
(* at once as the system never got to running, and re-raises: no start()   *)
(* or stop() of the scheduler follows a failed start().                    *)
(***************************************************************************)
FailedStartStaysRunning == TRUE

\* except Exception as e: ...; self.is_running = False; raise
FailedStartRunning == FALSE

\* The enabled jobs whose tasks the loop of _start_scheduled_tasks has
\* created after `created` passes that created one.
SpawnedBefore(configs, created) ==
    LET on == {i \in 1..Len(JobOrder) :
                  /\ JobOrder[i] \in DOMAIN configs
                  /\ configs[JobOrder[i]].enabled}
    IN  {JobOrder[i] : i \in {i \in on : Cardinality({m \in on : m < i}) < created}}

StartRaises(built, created) ==
    LET configs == [j \in registry |-> InitialConfigs[j]]
        spawned == IF built THEN SpawnedBefore(configs, created) ELSE {}
    IN  /\ StartEntry(is_running) = "start"
        /\ last_call.outcome # "raised"
        /\ built => created < Cardinality(ToSpawn(configs))
        /\ ~built => created = 0
        /\ is_running' = FailedStartRunning
        /\ task_configs' = IF built THEN configs ELSE task_configs
        /\ running_tasks' = running_tasks \cup spawned
        /\ pc' = [j \in Jobs |-> IF j \in spawned THEN "created" ELSE pc[j]]
        /\ cancel_req' = [j \in Jobs |->
                            IF j \in spawned THEN FALSE ELSE cancel_req[j]]
        /\ man' = [man EXCEPT !.stale = IF built THEN man.pc # "idle" ELSE @]
        /\ last_call' = [op |-> "start", seq |-> 1 - last_call.seq,
                         outcome |-> "raised"]
        /\ UNCHANGED <<now, slept, op_inflight, log_rec, log_hist, store,
                       alerts, stop_pc, stop_idx, cnt, rest>>

StartFailureNext ==
    \/ StartCall /\ last_call.outcome # "raised"
    \/ \E built \in BOOLEAN, created \in 0..Len(JobOrder) :
          StartRaises(built, created)
    \/ StopCall /\ last_call.outcome # "raised"
    \/ StopResumes
    \/ \E j \in Jobs : DeliverCancel(j) /\ UNCHANGED health
    \/ \E j \in Jobs : RunnerTick(j)
    \/ \E j \in Jobs : OperationReturns(j) /\ UNCHANGED health
    \/ \E j \in Jobs : OperationRaises(j)
    \/ \E j \in Jobs : LogGet(j)
    \/ \E j \in Jobs : LogSet(j)
    \/ \E j \in Jobs : AlertEnds(j)

\* The scheduler whose start() may fail, at one reading of the clock.
StartFailureSpec == Init /\ [][StartFailureNext]_vars

(***************************************************************************)
(* The daily job over two days.  Its operation returns.  Between two       *)
(* passes of the runner lie asyncio.sleep(60) and the time the pass itself *)
(* takes, so two readings of the clock one pass apart differ by one        *)
(* minute, or by two when the seconds carry.  While the interval since     *)
(* last_run has not elapsed every pass finds the job not due: IdlePasses   *)
(* stands for a run of such passes, up to the last minutes before the      *)
(* interval elapses.  The runner is never late: it makes its pass at the   *)
(* reading of the clock at which its sleep ends.                           *)
(***************************************************************************)
DailyJob == "daily_analytics"

DriftSteps == {PollMinutes, PollMinutes + 1}

\* The runner has slept its 60 s and has not made its pass yet.
PassPending == pc[DailyJob] = "sleep" /\ slept[DailyJob]

IdlePasses(early) ==
    LET last_run == task_configs[DailyJob].last_run
        wake == last_run + interval_minutes(DailyJob) - early
    IN  /\ is_running
        /\ pc[DailyJob] = "sleep" /\ ~slept[DailyJob]
        /\ last_run # NoRun
        /\ now < wake
        /\ now' = wake
        /\ slept' = [slept EXCEPT ![DailyJob] = TRUE]
        /\ UNCHANGED <<aux, is_running, task_configs, running_tasks, pc,
                       cancel_req, op_inflight, log_rec, log_hist, store,
                       alerts, stop_pc, stop_idx, man, cnt>>

DailyNext ==
    \/ \E d \in DriftSteps : Tick(d) /\ ~PassPending
    \/ \E early \in 1..2 : IdlePasses(early)
    \/ Start /\ UNCHANGED last_call
    \/ RunnerTick(DailyJob)
    \/ OperationReturns(DailyJob) /\ UNCHANGED health
    \/ LogGet(DailyJob)
    \/ LogSet(DailyJob)

DailySpec == CadenceInit /\ [][DailyNext]_vars

(***************************************************************************)
(* The runner of "weekly_analytics" kept running for weeks.  Its config    *)
(* is held in `probe`.  The runner passes once a minute, on the minute;    *)
(* the body, _generate_weekly_analytics, catches its own errors and        *)
(* returns at once, so a pass that finds the job due sets last_run within  *)
(* the same minute; the body generates the report only when                *)
(* datetime.now().weekday() is Monday.  Day 0 is a Monday.  Times are kept *)
(* modulo whole weeks: moving now and last_run back by a week changes      *)
(* neither their difference nor their hours, dates' equality or weekdays.  *)
(***************************************************************************)
WeekMinutes == WeekDays * DailyInterval

WeekdayOf(t) == DateOf(t) % WeekDays

WeeklyInit ==
    /\ now \in {d * DailyInterval + h * 60 :
                   d \in 0..(WeekDays - 1),
                   h \in {ReportHour - 1, ReportHour, ReportHour + 1}}
    /\ Constructed
    /\ registry = PollingJobs
    /\ probe = [NoProbe EXCEPT !.interval_minutes = WeeklyInterval,
                               !.run_at_hour = ReportHour]
    /\ health = IdleHealth
    /\ last_call = NoCall
    /\ reported = NoStatus
    /\ system = Serving
    /\ monitor = NoReport

\* One pass of the loop and the sleep that follows it.
WeeklyPass ==
    LET due == ShouldRunTask(probe, probe.run_at_hour, now)
        last == IF due THEN now ELSE probe.last_run
        back == IF last >= WeekMinutes THEN WeekMinutes ELSE 0
    IN  /\ probe' = [probe EXCEPT !.t = now - back, !.asked = TRUE,
                                  !.due = due, !.last_run = last - back]
        /\ now' = now + PollMinutes - back
        /\ UNCHANGED <<is_running, task_configs, running_tasks, pc, cancel_req,
                       slept, op_inflight, log_rec, log_hist, store, alerts,
                       stop_pc, stop_idx, man, cnt, registry, system, monitor,
                       health, reported, last_call>>

\* The last pass invoked the body on a Monday: the report was generated.
WeeklyReportGenerated == probe.due /\ WeekdayOf(probe.t) = Monday

WeeklyNext == WeeklyPass

\* The event loop resumes the runner after each of its sleeps.
WeeklySpec == WeeklyInit /\ [][WeeklyNext]_vars /\ WF_vars(WeeklyPass)

(***************************************************************************)
(* The built-in job bodies.  Each of them is one `try` whose                *)
(* `except Exception` logs the error, so whatever a collaborator call      *)
(* does, return or raise, the body returns to its caller.  The body of     *)
(* _system_health_check is followed await by await (above); of the other   *)
(* bodies only the outcome of the collaborator calls is followed.          *)
(***************************************************************************)
BodyPropagates(collaborators) ==
    IF collaborators = "Exception" THEN "raise" ELSE "return"

\* try: ... except Exception as e: logger.error(...)
BodyOutcome(collaborators) == "return"

\* The body of job j, invoked by its runner, ends.
JobBodyEnds(j, collaborators) ==
    /\ IF BodyOutcome(collaborators) = "return"
       THEN OperationReturns(j)
       ELSE OperationRaises(j)
    /\ UNCHANGED health

\* The body of the job invoked by run_task_manually ends.
ManualBodyEnds(collaborators) ==
    IF BodyOutcome(collaborators) = "return"
    THEN ManualOperationReturns
    ELSE ManualOperationRaises

BuiltinNext ==
    \/ Start /\ UNCHANGED last_call
    \/ \E j \in Jobs : RunnerTick(j)
    \/ \E j \in Jobs \ {HealthJob}, c \in {"ok", "Exception"} : JobBodyEnds(j, c)
    \/ \E outcome \in {"ok", "Exception"} : ProbeSetEnds(outcome)
    \/ \E outcome \in {"value", "None", "Exception"} : ProbeGetEnds(outcome)
    \/ \E outcome \in {"ok", "Exception"} : SnapshotSetEnds(outcome)
    \/ HealthAlertEnds
    \/ \E j \in Jobs : LogGet(j)
    \/ \E j \in Jobs : LogSet(j)
    \/ Stop /\ UNCHANGED last_call
    \/ StopResumes
    \/ \E j \in Jobs : CancelDelivered(j)
    \/ \E n \in registry : RunTaskManually(n)
    \/ \E c \in {"ok", "Exception"} : ManualBodyEnds(c)
    \/ ManualLogGet
    \/ ManualLogSet

\* The built-in jobs, run by their runners and by hand, at one reading of
\* the clock.
BuiltinSpec == Init /\ [][BuiltinNext]_vars

(***************************************************************************)
(* The store fails while an ExecutionRecord is persisted:                  *)
(* data_store.get or data_store.set raises inside _log_task_execution,     *)
(* whose `except Exception` logs the error and returns.  Nothing is        *)
(* written by the call that failed.                                        *)
(***************************************************************************)
LogRaises(j) ==
    /\ pc[j] \in {"ok_get", "ok_set", "fail_get", "fail_set"}
    /\ ~cancel_req[j]
    /\ Surface(j, "Exception")
    /\ UNCHANGED <<aux, now, is_running, task_configs, running_tasks, cancel_req,
                   op_inflight, store, stop_pc, stop_idx, man, cnt>>

\* The same inside run_task_manually, which then returns True or False.
ManualLogRaises ==
    /\ man.pc \in {"ok_get", "ok_set", "fail_get", "fail_set"}
    /\ man' = [man EXCEPT !.pc = "idle",
                          !.ret = IF man.pc \in {"ok_get", "ok_set"}
                                  THEN "True" ELSE "False",
                          !.rec = NoLog, !.hist = <<>>]
    /\ UNCHANGED <<aux, now, is_running, task_configs, running_tasks, pc, cancel_req,
                   slept, op_inflight, log_rec, log_hist, store, alerts,
                   stop_pc, stop_idx, cnt>>

StoreFailureNext ==
    \/ Start /\ UNCHANGED last_call
    \/ \E j \in Jobs : RunnerTick(j)
    \/ \E j \in Jobs : OperationReturns(j) /\ UNCHANGED health
    \/ \E j \in Jobs : OperationRaises(j)
    \/ \E j \in Jobs : LogGet(j)
    \/ \E j \in Jobs : LogSet(j)
    \/ \E j \in Jobs : LogRaises(j)
    \/ \E j \in Jobs : AlertEnds(j)
    \/ ManualNext
    \/ ManualLogRaises

\* Runners and manual calls over a store that may fail, at one reading of
\* the clock.
StoreFailureSpec == Init /\ [][StoreFailureNext]_vars

(***************************************************************************)
(* Claims.                                                                 *)
(***************************************************************************)
Handling == {"op", "fail_get", "fail_set", "alert"}

\* C1: failure isolation.  An operation that ends without a cancellation
\* pending leaves its runner on the success or the failure path; the failure
\* path leads on to the polling sleep; a runner ends only when it is
\* cancelled or is_running is cleared; and the steps of one runner's
\* failure handling change no other runner.  For every job alike.
C1_FailureIsolation ==
    [][\A j \in Jobs :
         /\ (pc[j] = "op" /\ pc'[j] # "op" /\ ~cancel_req[j])
               => pc'[j] \in {"ok_get", "fail_get"}
         /\ (pc[j] = "fail_get" /\ pc'[j] # pc[j] /\ ~cancel_req[j])
               => pc'[j] = "fail_set"
         /\ (pc[j] = "fail_set" /\ pc'[j] # pc[j] /\ ~cancel_req[j])
               => pc'[j] = "alert"
         /\ (pc[j] = "alert" /\ pc'[j] # pc[j]) => pc'[j] = "sleep"
         /\ (pc[j] # "done" /\ pc'[j] = "done") => (cancel_req[j] \/ ~is_running)
         /\ (pc[j] \in Handling /\ pc'[j] # pc[j])
               => \A k \in registry \ {j} :
                     /\ pc'[k] = pc[k]
                     /\ cancel_req'[k] = cancel_req[k]
                     /\ log_rec'[k] = log_rec[k]
                     /\ store'[k] = store[k]
                     /\ task_configs'[k] = task_configs[k]
      ]_vars

\* The health check's runner has recorded a failure and is at its next
\* tick, while the other runner is alive.
C1_Witness ==
    /\ is_running
    /\ pc["system_health_check"] = "sleep" /\ slept["system_health_check"]
    /\ store["system_health_check"] # <<>>
    /\ ~store["system_health_check"][1].success
    /\ pc["social_engagement"] \notin {"none", "done"}

\* C2: the step in which a runner begins an invocation sets the job's
\* last_run to the current time, so that last_run marks every attempt.
C2_MarksAttemptBeforeInvoking ==
    [][\A j \in Jobs :
         op_inflight'[j] > op_inflight[j] => task_configs'[j].last_run = now
      ]_vars

\* C3: stop() drains every runner.  While stop() awaits a runner to which
\* its cancellation has been delivered, that runner has terminated, so the
\* await ends and stop() goes on to clear the task set.
C3_StopDrains ==
    (stop_pc = "await" /\ ~cancel_req[JobOrder[stop_idx]])
        => pc[JobOrder[stop_idx]] = "done"

\* C4: a runner has at most one invocation of its operation in flight.
C4_Serialized == \A j \in Jobs : op_inflight[j] <= 1

\* A runner awaits its second invocation, the first one being recorded.
C4_Witness ==
    \E j \in Jobs : pc[j] = "op" /\ op_inflight[j] = 1 /\ store[j] # <<>>

\* C5: a runner never terminates while its invocation is in flight: the
\* invocation first completes and its outcome goes to be recorded.
C5_InFlightCompletes ==
    [][\A j \in Jobs : pc[j] = "op" => pc'[j] # "done"]_vars

\* C6: no record is persisted for a cancellation.  A step of stop() or the
\* delivery of a cancellation leaves every history as it is, and no history
\* ever holds a record whose error is the cancellation.
C6_NoCancelRecord ==
    [][/\ (stop_pc' # stop_pc \/ \E j \in Jobs : cancel_req[j] /\ ~cancel_req'[j])
            => store' = store
       /\ \A n \in Names : \A i \in 1..Len(store'[n]) :
            store'[n][i].error # "CancelledError"
      ]_vars

\* stop() has returned after cancelling runners whose invocations were
\* in flight or being recorded: the histories are empty.
C6_Witness ==
    /\ ~is_running /\ cnt.starts = 1 /\ cnt.invocations > 0
    /\ \A j \in registry : pc[j] = "done"
    /\ \A n \in Names : store[n] = <<>>

\* C7: run_task_manually handles a failure as the runner does: once the
\* failure record is persisted it calls the alert sink for the job.
C7_ManualAlertsLikeRunner ==
    [][(man.pc = "fail_set" /\ man'.pc # "fail_set")
          => alerts'[man.job] = alerts[man.job] + 1
      ]_vars

\* C8: a manual run resets the cadence clock.  When run_task_manually
\* returns for a registered job and less than the job's interval has passed
\* since its attempt ended, the schedule check finds the job not due.
C8_ManualResetsCadence ==
    [][(man.pc \in {"ok_set", "fail_set"} /\ man'.pc = "idle" /\ ~man.stale
          /\ now - man.rec.timestamp < interval_minutes(man.job))
          => ~ShouldRunTask(task_configs'[man.job], run_at_hour(man.job), now')
      ]_vars

\* C9: run_task_manually with a name that is not registered returns False
\* in the same step, invokes nothing, records nothing, alerts nobody and
\* changes no config; no history of an unregistered name ever has a record.
C9_UnknownJob ==
    [][/\ (cnt'.calls > cnt.calls /\ man'.job \notin DOMAIN task_configs)
            => /\ man'.pc = "idle" /\ man'.ret = "False"
               /\ cnt'.invocations = cnt.invocations
               /\ op_inflight' = op_inflight
               /\ store' = store
               /\ alerts' = alerts
               /\ task_configs' = task_configs
       /\ \A n \in Names \ DOMAIN task_configs' : store'[n] = <<>>
      ]_vars

\* The started scheduler has answered False to an unregistered name.
C9_Witness ==
    /\ is_running
    /\ man.pc = "idle" /\ man.job = "nonexistent" /\ man.ret = "False"

\* C10: every completed attempt adds exactly one record.  The step that
\* completes the persisting of a record, by a runner or by
\* run_task_manually, leaves the history equal to that record put in front
\* of the history persisted until then.
C10_OneRecordPerAttempt ==
    [][/\ \A j \in Jobs :
            (pc[j] \in {"ok_set", "fail_set"} /\ pc'[j] \in {"sleep", "alert"})
               => store'[j] = InsertCapped(store[j], log_rec[j])
       /\ (man.pc \in {"ok_set", "fail_set"} /\ man'.pc = "idle")
               => store'[man.job] = InsertCapped(store[man.job], man.rec)
      ]_vars

\* C11: retention.  The persisted history of every job holds at most
\* HistoryCap records, however many invocations have been recorded.
C11_Retention == \A n \in Names : Len(store[n]) <= HistoryCap

\* More invocations than the cap have been recorded and the history is full.
C11_Witness ==
    /\ cnt.calls > HistoryCap
    /\ Len(store[SequentialJob]) = HistoryCap

\* C12: after n invocations in sequence the history has min(n, HistoryCap)
\* records, which are the latest attempts, the newest first: the record at
\* position i is that of the i-th latest call, made i poll periods before
\* the n-th call returned its slot to the clock.
C12_LatestNewestFirst ==
    LET h == store[SequentialJob]
        n == cnt.calls
    IN  /\ Len(h) = IF n <= HistoryCap THEN n ELSE HistoryCap
        /\ \A i \in 1..Len(h) :
              /\ h[i].task_name = SequentialJob
              /\ h[i].timestamp = (n - i) * PollMinutes

\* 150 invocations have left the 100 latest: those of minutes 149 down to 50.
C12_Witness ==
    /\ cnt.calls = 150
    /\ Len(store[SequentialJob]) = 100
    /\ store[SequentialJob][1].timestamp = 149 * PollMinutes
    /\ store[SequentialJob][100].timestamp = 50 * PollMinutes

\* C13: health derivation.  In the step that derives overall_status, the
\* store counts as reachable only after the round trip of a set and a get
\* that returned a value, and the status is healthy iff the store is
\* reachable and every tracked runner task is running, unhealthy iff the
\* store is unreachable and not every tracked runner is running, degraded
\* in every other case.
C13_HealthDerivation ==
    [][(health.pc \in {"idle", "probe_get"} /\ health'.pc = "snapshot_set")
          => LET reachable == health'.redis_ok
                 running == \A t \in running_tasks : pc[t] # "done"
             IN  /\ reachable => health.pc = "probe_get"
                 /\ health'.status = "healthy" <=> (reachable /\ running)
                 /\ health'.status = "unhealthy" <=> (~reachable /\ ~running)
                 /\ health'.status = "degraded" <=> (reachable # running)
      ]_vars

\* An unhealthy snapshot has been derived and persisted: the store probe
\* failed while stop() had already ended a tracked runner.
C13_Witness ==
    /\ health.status = "unhealthy"
    /\ health.system_health = "unhealthy"
    /\ ~health.redis_ok /\ ~health.tasks_ok

\* C14: an invocation of the health check that has derived the status
\* unhealthy does not return to its runner without having called the alert
\* sink, whether or not the write of the snapshot succeeded.
C14_UnhealthyAlerts ==
    [][(health.status = "unhealthy" /\ health.pc # "idle" /\ health'.pc = "idle"
          /\ pc'[HealthJob] = "ok_get")
          => health.pc = "alert"
      ]_vars

\* C15: schedule evaluator, never-run case.  For a config with no last_run
\* the job is due when run_at_hour is unset, and with run_at_hour = H it is
\* due iff the current hour is H.
C15_NeverRun ==
    (probe.asked /\ probe.last_run = NoRun)
        => (probe.due <=> (probe.run_at_hour = NoHour
                           \/ HourOf(probe.t) = probe.run_at_hour))

\* A job that never ran is found due within its hour.
C15_Witness ==
    /\ probe.asked /\ probe.last_run = NoRun
    /\ probe.run_at_hour = ReportHour
    /\ HourOf(probe.t) = ReportHour
    /\ probe.due

\* C16: schedule evaluator, interval rule.  With a last_run less than the
\* job's interval before the current time the job is not due, whatever
\* run_at_hour and the current hour are.
C16_IntervalRule ==
    (probe.asked /\ probe.last_run # NoRun
       /\ probe.t - probe.last_run < probe.interval_minutes)
        => ~probe.due

\* The current hour is the job's hour and last_run lies on the day before,
\* but less than the interval ago: not due.
C16_Witness ==
    /\ probe.asked /\ probe.last_run # NoRun
    /\ probe.t > probe.last_run
    /\ probe.t - probe.last_run < probe.interval_minutes
    /\ HourOf(probe.t) = probe.run_at_hour
    /\ DateOf(probe.last_run) # DateOf(probe.t)
    /\ ~probe.due

\* C17: schedule evaluator, hour rule.  For a job with run_at_hour = H whose
\* interval has elapsed since last_run, the job is due iff the current hour
\* is H and last_run does not lie on the current date in hour H.  With an
\* interval of 60 minutes, H = 9 and last_run at 09:00 of day 0, the job is
\* not due at 09:30 of day 0 and due at 09:05 of day 1.
C17_HourRule ==
    /\ (probe.asked /\ probe.last_run # NoRun /\ probe.run_at_hour # NoHour
          /\ probe.t - probe.last_run >= probe.interval_minutes)
          => (probe.due <=>
                /\ HourOf(probe.t) = probe.run_at_hour
                /\ ~(DateOf(probe.last_run) = DateOf(probe.t)
                     /\ HourOf(probe.last_run) = probe.run_at_hour))
    /\ (probe.asked /\ probe.interval_minutes = 60 /\ probe.run_at_hour = 9
          /\ probe.last_run = 9 * 60)
          => /\ probe.t = 9 * 60 + 30 => ~probe.due
             /\ probe.t = 1440 + 9 * 60 + 5 => probe.due

\* The job of the example is found due at 09:05 of the next day.
C17_Witness ==
    /\ probe.asked /\ probe.interval_minutes = 60 /\ probe.run_at_hour = 9
    /\ probe.last_run = 9 * 60
    /\ probe.t = 1440 + 9 * 60 + 5
    /\ probe.due

\* C18: no double firing within a target hour.  The step in which the
\* runner of a job with run_at_hour = H begins an invocation finds no
\* record of an attempt of that job made in the current hour of the current
\* date, whether that attempt succeeded or failed.
C18_OncePerTargetHour ==
    [][\A j \in Jobs :
         (run_at_hour(j) # NoHour /\ op_inflight'[j] > op_inflight[j])
            => \A i \in 1..Len(store[j]) :
                  ~(DateOf(store[j][i].timestamp) = DateOf(now)
                    /\ HourOf(store[j][i].timestamp) = HourOf(now))
      ]_vars

\* C19: stop() is idempotent.  A stop() call made while the scheduler is
\* not running, one that follows a completed stop() included, raises
\* nothing, requests no cancellation and changes nothing: the scheduler is
\* left not running with an empty task set, as the first stop() left it.
C19_StopIdempotent ==
    [][(last_call'.seq # last_call.seq /\ last_call'.op = "stop" /\ ~is_running)
          => /\ last_call'.outcome = "noop"
             /\ cancel_req' = cancel_req
             /\ ~is_running' /\ running_tasks' = {}
             /\ sched' = sched
      ]_vars

\* The scheduler was started and stopped, its runners have ended, and the
\* owner's last call was a stop() that returned at once.
C19_Witness ==
    /\ last_call.op = "stop" /\ last_call.outcome = "noop"
    /\ cnt.starts = 1
    /\ ~is_running /\ running_tasks = {}
    /\ \A j \in registry : pc[j] = "done"

\* C20: start() while running is a no-op.  It raises nothing, creates no
\* runner task and replaces no config: every last_run is kept.
C20_StartWhileRunning ==
    [][(last_call'.seq # last_call.seq /\ last_call'.op = "start" /\ is_running)
          => /\ last_call'.outcome = "noop"
             /\ running_tasks' = running_tasks
             /\ pc' = pc
             /\ task_configs' = task_configs
             /\ sched' = sched
      ]_vars

\* start() has returned at once on a running scheduler, and a job that ran
\* before the call still has its last_run.
C20_Witness ==
    /\ last_call.op = "start" /\ last_call.outcome = "noop"
    /\ is_running
    /\ \E j \in registry : task_configs[j].last_run # NoRun

\* C21: one runner per enabled job.  A runner task that has not ended is
\* tracked under its job's name and belongs to an enabled job; a start()
\* that takes effect finds no runner alive, and leaves exactly the enabled
\* jobs tracked, each with a new runner; and the automatic path invokes
\* only enabled jobs, from their runner.
C21_OneRunnerPerEnabledJob ==
    [][/\ \A j \in Jobs :
            pc'[j] \notin {"none", "done"}
               => /\ j \in running_tasks'
                  /\ j \in DOMAIN task_configs'
                  /\ task_configs'[j].enabled
       /\ cnt'.starts > cnt.starts
            => /\ \A j \in Jobs : pc[j] \in {"none", "done"}
               /\ running_tasks' =
                     {j \in DOMAIN task_configs' : task_configs'[j].enabled}
               /\ \A j \in running_tasks' : pc'[j] = "created"
       /\ \A j \in Jobs :
            op_inflight'[j] > op_inflight[j]
               => task_configs[j].enabled /\ pc'[j] = "op"
      ]_vars

\* The scheduler runs after its second start(), with a runner per job.
C21_Witness ==
    /\ cnt.starts = 2 /\ is_running
    /\ running_tasks = registry
    /\ \A j \in registry : pc[j] \notin {"none", "done"}

\* C22: the read-only queries change nothing.  A step that returns a status
\* or the result of a schedule check leaves the scheduler as it was: every
\* last_run, the registry, the task set, is_running and every history.
C22_QueriesReadOnly ==
    [][(reported' # reported \/ probe' # probe)
          => /\ task_configs' = task_configs
             /\ running_tasks' = running_tasks
             /\ is_running' = is_running
             /\ store' = store
             /\ sched' = sched
             /\ registry' = registry
      ]_vars

\* Both queries have been answered on a scheduler that has run a job and
\* recorded it.
C22_Witness ==
    /\ reported.returned /\ probe.asked
    /\ \E j \in DOMAIN task_configs :
          task_configs[j].last_run # NoRun /\ store[j] # <<>>

\* C23: the status query.  For every registered job the status returned
\* has next_run = last_run + interval when last_run is present and
\* "immediately" when it is absent, and running true iff the job has a
\* tracked runner task that has not finished; scheduler_running is the
\* is_running flag.
C23_StatusReport ==
    [][reported' # reported
          => /\ reported'.scheduler_running = is_running
             /\ DOMAIN reported'.tasks = DOMAIN task_configs
             /\ \A j \in DOMAIN task_configs :
                  LET r == reported'.tasks[j]
                      last == task_configs[j].last_run
                  IN  /\ r.last_run = last
                      /\ last = NoRun => r.next_run = "immediately"
                      /\ last # NoRun => r.next_run = last + interval_minutes(j)
                      /\ r.running <=>
                            (j \in running_tasks /\ pc[j] \notin {"none", "done"})
      ]_vars

\* A status taken while stop() drains: one job has run and its runner has
\* ended, another has not run and its runner is alive.
C23_Witness ==
    /\ reported.returned /\ reported.scheduler_running
    /\ \E j, k \in DOMAIN reported.tasks :
          /\ reported.tasks[j].last_run # NoRun /\ ~reported.tasks[j].running
          /\ reported.tasks[k].last_run = NoRun /\ reported.tasks[k].running

\* C24: a failure of the alert sink is swallowed.  When the alert call of a
\* runner ends, by returning or by raising, the runner goes to its polling
\* sleep; the failure record it persisted before the call is the newest of
\* the job's history and stays there.
C24_AlertFailureSwallowed ==
    [][\A j \in Jobs :
         (pc[j] = "alert" /\ pc'[j] # "alert")
            => /\ pc'[j] = "sleep"
               /\ store[j] # <<>>
               /\ ~store[j][1].success /\ store[j][1].task_name = j
               /\ store' = store
      ]_vars

\* After a failed invocation and its alert the runner has ticked again and
\* awaits the job's next invocation.
C24_Witness ==
    \E j \in Jobs :
       /\ pc[j] = "op" /\ alerts[j] = 1
       /\ Len(store[j]) = 1 /\ ~store[j][1].success

\* C25: a failing schedule evaluation counts as not due.  A pass of the
\* runner's loop over a config whose last_run cannot be parsed invokes no
\* operation and writes no record, and leaves the runner at its polling
\* sleep, from which it ticks again.
C25_EvaluatorFailureNotDue ==
    [][\A j \in DOMAIN task_configs :
         (/\ task_configs[j].last_run = BadRun
          /\ is_running
          /\ pc[j] = "created" \/ (pc[j] = "sleep" /\ slept[j])
          /\ pc'[j] # pc[j] \/ slept'[j] # slept[j])
            => /\ ~ShouldRunTask(task_configs[j], run_at_hour(j), now)
               /\ pc'[j] = "sleep" /\ ~slept'[j]
               /\ op_inflight' = op_inflight
               /\ cnt'.invocations = cnt.invocations
               /\ store' = store
      ]_vars

\* The runner has passed over the unparsable last_run, slept its minute and
\* is ready for the next pass; nothing was invoked.
C25_Witness ==
    \E j \in DOMAIN task_configs :
       /\ task_configs[j].last_run = BadRun
       /\ pc[j] = "sleep" /\ slept[j]
       /\ cnt.ticks = 2 /\ cnt.invocations = 0

\* C26: failure isolation in numbers.  For N ticks to leave N records in a
\* job's history, every pass of a runner's loop invokes the job's operation.
C26_EveryTickRecords ==
    [][\A j \in registry :
         (/\ is_running
          /\ \/ pc[j] = "created" /\ pc'[j] # "created"
             \/ pc[j] = "sleep" /\ slept[j] /\ (pc'[j] # "sleep" \/ ~slept'[j]))
            => op_inflight'[j] = op_inflight[j] + 1
      ]_vars

\* C26, amended: the history of the job that always fails holds failures of
\* that job only, the history of the job that always succeeds holds
\* successes of that job only; between invocations the two histories hold
\* one record per invocation made, every failure having been alerted; and
\* both runners are alive as long as the scheduler runs.
C26_FailureIsolationCounts ==
    /\ \A i \in 1..Len(store[FailingJob]) :
          /\ store[FailingJob][i].task_name = FailingJob
          /\ ~store[FailingJob][i].success
    /\ \A i \in 1..Len(store[SteadyJob]) :
          /\ store[SteadyJob][i].task_name = SteadyJob
          /\ store[SteadyJob][i].success
    /\ is_running => \A j \in registry : pc[j] \notin {"none", "done"}
    /\ (\A j \in registry : pc[j] \in {"created", "sleep"})
          => /\ Len(store[FailingJob]) + Len(store[SteadyJob]) = cnt.invocations
             /\ alerts[FailingJob] = Len(store[FailingJob])
             /\ alerts[SteadyJob] = 0

\* Both jobs have been invoked and recorded, one failure and one success,
\* and both runners have slept through two steps of the clock.
C26_Witness ==
    /\ is_running /\ cnt.ticks = 2
    /\ Len(store[FailingJob]) = 1 /\ Len(store[SteadyJob]) = 1
    /\ \A j \in registry : pc[j] = "sleep" /\ slept[j]

\* C27: run_task_manually and the runner of the same job do not exclude
\* one another.  While the runner's invocation of a job is in flight a call
\* of run_task_manually for that job goes on to invoke the operation, and
\* while a manual invocation is in flight the runner of that job, when the
\* job is due, goes on to invoke it as well.
C27_NoMutualExclusion ==
    \A j \in registry :
       /\ (/\ pc[j] = "op"
           /\ man.pc = "idle"
           /\ cnt.calls < MaxManualCalls
           /\ cnt.invocations < MaxInvocations)
             => ENABLED (RunTaskManually(j) /\ man'.pc = "op")
       /\ (/\ man.pc = "op" /\ man.job = j
           /\ is_running
           /\ pc[j] = "created" \/ (pc[j] = "sleep" /\ slept[j])
           /\ ~cancel_req[j]
           /\ ShouldRunTask(task_configs[j], run_at_hour(j), now)
           /\ cnt.invocations < MaxInvocations)
             => ENABLED (RunnerTick(j) /\ pc'[j] = "op")

\* The manual call and the runner of the same job both have an invocation
\* of the job's operation in flight.
C27_Witness ==
    /\ man.pc = "op"
    /\ man.job \in registry
    /\ pc[man.job] = "op"
    /\ op_inflight[man.job] = 1

\* C28: run_task_manually contains the errors of the job.  A call never ends
\* with an error raised to its caller; when the operation ends, the call
\* goes on to log a success after a normal return and a failure after an
\* error; a call for a registered job returns True exactly when the
\* operation returned normally and False when it raised, and in that case
\* the failure record of the job is at the head of its persisted history.
C28_ManualErrorContained ==
    [][/\ man'.ret \in {"none", "True", "False"}
       /\ (man.pc = "op" /\ man'.pc # "op")
            => /\ man'.ret = "none"
               /\ \/ /\ man'.pc = "ok_get"
                     /\ man'.rec = ExecutionLog(man.job, now, TRUE, "")
                  \/ /\ man'.pc = "fail_get"
                     /\ man'.rec = ExecutionLog(man.job, now, FALSE, "Exception")
       /\ (man.pc # "idle" /\ man'.pc = "idle")
            => /\ man.job \in DOMAIN task_configs
               /\ man'.ret = (IF man.rec.success THEN "True" ELSE "False")
               /\ ~man.rec.success
                    => /\ man.rec.task_name = man.job
                       /\ Len(store'[man.job]) > 0
                       /\ store'[man.job][1] = man.rec
      ]_vars

\* A call for a registered job has returned False and the failure is the
\* newest record of the job.
C28_Witness ==
    /\ man.pc = "idle" /\ man.ret = "False"
    /\ man.job \in registry
    /\ Len(store[man.job]) > 0
    /\ ~store[man.job][1].success
    /\ store[man.job][1].error = "Exception"

\* C29: ownership of a job's state.  From its creation by start() on, the
\* last_run of a job is changed only by the step in which that job's runner
\* or a run_task_manually call for that job sees the operation return, and
\* the persisted history of a job only by the step in which one of those
\* two persists a record; a step of the runner of a job, or of a manual call
\* for it, changes neither the last_run nor the history of another job.
C29_JobStateOwnership ==
    [][cnt'.starts = cnt.starts
         => \A b \in DOMAIN task_configs :
              /\ task_configs'[b].last_run # task_configs[b].last_run
                   => \/ pc[b] = "op" /\ pc'[b] = "ok_get"
                      \/ man.job = b /\ man.pc = "op" /\ man'.pc = "ok_get"
              /\ store'[b] # store[b]
                   => \/ pc[b] \in {"ok_set", "fail_set"} /\ pc'[b] # pc[b]
                      \/ man.job = b /\ man.pc \in {"ok_set", "fail_set"}
                            /\ man'.pc = "idle"
              /\ \A a \in DOMAIN task_configs \ {b} :
                    (\/ pc'[a] # pc[a]
                     \/ op_inflight'[a] # op_inflight[a]
                     \/ man' # man /\ man'.job = a)
                       => /\ task_configs'[b].last_run = task_configs[b].last_run
                          /\ store'[b] = store[b]
      ]_vars

\* One job has run to a recorded success, by its runner or by hand, while
\* another job, invoked as well, has failed and been recorded: the first
\* has a last_run, the second has none.
C29_Witness ==
    \E a, b \in DOMAIN task_configs :
       /\ a # b
       /\ task_configs[a].last_run # NoRun
       /\ Len(store[a]) = 1 /\ store[a][1].success
       /\ task_configs[b].last_run = NoRun
       /\ Len(store[b]) = 1 /\ ~store[b][1].success

\* C30: shutdown ordering.  Once close_data_store() has been called, the
\* scheduler's stop() has returned, having cleared the task set and the
\* running flag, and no runner is alive: every runner task has ended, no
\* cancellation is pending and no invocation is in flight.
C30_ShutdownOrdering ==
    ~system.store_open
       => /\ stop_pc = "idle"
          /\ ~is_running
          /\ running_tasks = {}
          /\ \A j \in Jobs : /\ pc[j] \in {"none", "done"}
                             /\ ~cancel_req[j]
                             /\ op_inflight[j] = 0

\* The store is closed after a session in which a runner recorded a run.
C30_Witness ==
    /\ ~system.store_open
    /\ cnt.starts = 1
    /\ \A j \in registry : pc[j] = "done"
    /\ \E j \in registry : store[j] # <<>>

\* C31: the monitoring entry point surfaces the status of the latest
\* snapshot.  When health_check() returns its report after a ping that
\* succeeded, with a snapshot persisted, the status of the report is the
\* overall_status of that snapshot, and the component flags are "ok" for
\* the reachable store and for the running system.
C31_MonitorSurfacesSnapshot ==
    [][(/\ monitor.pc = "get" /\ monitor'.pc = "idle"
        /\ monitor'.status # "error"
        /\ monitor.data_store_ok
        /\ health.system_health # "none")
          => /\ monitor'.status = health.system_health
             /\ monitor'.data_store = "ok"
             /\ monitor'.scheduler = "ok"
      ]_vars

\* C32: a start() that fails raises to its caller and leaves the scheduler
\* not running; the runner tasks it had created before it failed invoke
\* nothing: each is waiting for its first run or has ended, and no
\* invocation is in flight.
C32_FailedStartNotRunning ==
    last_call.outcome = "raised"
       => /\ last_call.op = "start"
          /\ ~is_running
          /\ \A j \in Jobs : /\ pc[j] \in {"none", "created", "done"}
                             /\ op_inflight[j] = 0

\* start() failed after it had created the task of the first job; that
\* task has run and ended at once.
C32_Witness ==
    /\ last_call.outcome = "raised"
    /\ running_tasks = {JobOrder[1]}
    /\ pc[JobOrder[1]] = "done"
    /\ store[JobOrder[1]] = <<>>

\* C33: no re-invocation within the interval.  When a runner invokes its
\* job, every success of that job recorded since the runner was started
\* was completed at least the job's interval ago.
C33_NoReinvocationWithinInterval ==
    [][\A j \in registry :
         op_inflight'[j] > op_inflight[j]
            => \A i \in 1..Len(store[j]) :
                  store[j][i].success
                     => now - store[j][i].timestamp >= interval_minutes(j)
      ]_vars

\* The job that succeeds has been invoked a second time, its interval
\* after the success on record.
C33_Witness ==
    /\ pc[SteadyJob] = "op"
    /\ Len(store[SteadyJob]) = 1
    /\ store[SteadyJob][1].success
    /\ now - store[SteadyJob][1].timestamp >= interval_minutes(SteadyJob)

\* C34: the daily job fires on every calendar day during its hour.  When
\* the job last ran during hour H of some day, the runner makes no pass
\* after hour H of the following day with that last_run still in place:
\* by then a pass during hour H has found the job due and run it.
C34_FiresEveryDay ==
    [][(/\ is_running
        /\ pc[DailyJob] = "sleep" /\ slept[DailyJob]
        /\ pc'[DailyJob] # "sleep" \/ ~slept'[DailyJob]
        /\ task_configs[DailyJob].last_run # NoRun
        /\ HourOf(task_configs[DailyJob].last_run) = ReportHour
        /\ DateOf(now) = DateOf(task_configs[DailyJob].last_run) + 1)
          => HourOf(now) <= ReportHour
      ]_vars

\* C35: the weekly report is eventually generated.  From whatever weekday
\* the scheduler was started, the runner of weekly_analytics, kept
\* running, comes to invoke the job on a Monday.
C35_WeeklyReportEventually == <>WeeklyReportGenerated

\* C36: a restart forgets the previous session.  A start() that takes
\* effect leaves every job with last_run absent, and the first pass of the
\* runner of a job without a target hour, made while the scheduler runs,
\* invokes the job, however recently it ran before the restart.
C36_RestartResetsLastRun ==
    [][/\ cnt'.starts > cnt.starts
            => \A j \in DOMAIN task_configs' :
                  /\ task_configs'[j].last_run = NoRun
                  /\ run_at_hour(j) = NoHour
                       => ShouldRunTask(task_configs'[j], run_at_hour(j), now')
       /\ \A j \in registry :
            (/\ is_running
             /\ run_at_hour(j) = NoHour
             /\ pc[j] = "created" /\ pc'[j] \notin {"created", "done"})
               => pc'[j] = "op" /\ op_inflight'[j] = op_inflight[j] + 1
      ]_vars

\* After a stop() and a second start() a job that ran and was recorded at
\* this very reading of the clock is being invoked again.
C36_Witness ==
    \E j \in registry :
       /\ cnt.starts = 2 /\ is_running
       /\ pc[j] = "op"
       /\ Len(store[j]) = 1
       /\ store[j][1].success /\ store[j][1].timestamp = now

\* C37: no new invocation once stop() has been called.  While stop() is
\* awaiting a runner it has cancelled, no runner begins an invocation of
\* its job's operation.
C37_NoInvocationDuringStop ==
    [][stop_pc = "await"
          => \A j \in Jobs : op_inflight'[j] <= op_inflight[j]
      ]_vars

\* C38: the built-in job bodies contain their errors.  Whatever the
\* collaborator calls of a body did, an invocation that stop() does not
\* cancel ends by returning: the runner, or run_task_manually, sets
\* last_run and goes on to log a success; every record logged or persisted
\* is a success and no runner-level failure alert is ever sent.
C38_BodiesContainErrors ==
    [][/\ \A j \in registry :
            (pc[j] = "op" /\ pc'[j] \notin {"op", "done"})
               => /\ pc'[j] = "ok_get"
                  /\ task_configs'[j].last_run = now
                  /\ log_rec'[j] = ExecutionLog(j, now, TRUE, "")
       /\ (man.pc = "op" /\ man'.pc # "op")
               => /\ man'.pc = "ok_get"
                  /\ man'.rec = ExecutionLog(man.job, now, TRUE, "")
                  /\ ~man.stale => task_configs'[man.job].last_run = now
       /\ \A n \in Names :
            /\ alerts'[n] = 0
            /\ \A i \in 1..Len(store'[n]) : store'[n][i].success
      ]_vars

\* The store failed the probe of the health check, whose body went on to
\* persist a snapshot that is not healthy and returned; the runner has
\* recorded the invocation as a success and set last_run.
C38_Witness ==
    /\ ~health.redis_ok /\ health.system_health \in {"degraded", "unhealthy"}
    /\ pc[HealthJob] = "sleep"
    /\ Len(store[HealthJob]) = 1
    /\ store[HealthJob][1].success
    /\ task_configs[HealthJob].last_run = store[HealthJob][1].timestamp
    /\ alerts[HealthJob] = 0

\* C39: a store failure while a record is persisted is swallowed.  The
\* runner leaves the logging of a success only for its sleep and the
\* logging of a failure only for the alert, and run_task_manually returns
\* True after a success and False after a failure, whether the record was
\* persisted or the store failed; a step that ends a logging either
\* persists the history with the new record or leaves every history as it
\* was, and it changes no last_run and not the running flag.
C39_LogFailureSwallowed ==
    [][/\ \A j \in registry :
            (pc[j] \in {"ok_get", "ok_set", "fail_get", "fail_set"}
                /\ pc'[j] # pc[j])
               => /\ pc[j] = "ok_get" => pc'[j] \in {"ok_set", "sleep"}
                  /\ pc[j] = "ok_set" => pc'[j] = "sleep"
                  /\ pc[j] = "fail_get" => pc'[j] \in {"fail_set", "alert"}
                  /\ pc[j] = "fail_set" => pc'[j] = "alert"
                  /\ pc'[j] = "alert" => alerts'[j] = alerts[j] + 1
                  /\ \/ store' = store
                     \/ /\ pc[j] \in {"ok_set", "fail_set"}
                        /\ store' = [store EXCEPT ![j] = log_hist[j]]
                  /\ task_configs' = task_configs
                  /\ is_running' = is_running
       /\ (man.pc \in {"ok_get", "ok_set", "fail_get", "fail_set"}
              /\ man'.pc # man.pc)
               => /\ man.pc = "ok_get" => man'.pc \in {"ok_set", "idle"}
                  /\ man.pc = "fail_get" => man'.pc \in {"fail_set", "idle"}
                  /\ man.pc \in {"ok_set", "fail_set"} => man'.pc = "idle"
                  /\ man'.pc = "idle"
                       => man'.ret = (IF man.pc \in {"ok_get", "ok_set"}
                                      THEN "True" ELSE "False")
                  /\ \/ store' = store
                     \/ /\ man.pc \in {"ok_set", "fail_set"}
                        /\ store' = [store EXCEPT ![man.job] = man.hist]
                  /\ task_configs' = task_configs
      ]_vars

\* A job ran to a normal return and has its last_run, the store failed
\* when the success was to be persisted, and the runner sleeps; and a
\* manual call of a job has returned True with nothing persisted for it.
C39_Witness ==
    /\ \E j \in registry :
          /\ pc[j] = "sleep"
          /\ task_configs[j].last_run # NoRun
          /\ store[j] = <<>>
    /\ man.pc = "idle" /\ man.ret = "True" /\ store[man.job] = <<>>

=============================================================================
